---- MODULE Spec2Model ----
(***************************************************************************)
(* Model of nevez (src/src/nevez.rs), the changelog generator of           *)
(* elb-dev-tools-ng: commit classification, message shortening, section    *)
(* formatting, and the merge of the new section into the changelog file.   *)
(*                                                                         *)
(* Text is modelled as sequences of one-character strings, so that the     *)
(* regular expressions, str::lines, BufRead::lines and the byte content of *)
(* files are computed character by character as the code computes them.    *)
(***************************************************************************)
EXTENDS Integers, Sequences, FiniteSets, TLC

VARIABLES
    \* ---- generate_changelog (classify + format) ----
    commits,      \* Vec<Commit>: the parsed commits; each is its message
    tag,          \* new_tag given to Formatter::format
    classified,   \* ClassifiedCommits: three sequences of indices into commits
    section,      \* the String returned by Formatter::format
    today,        \* the date Utc::now() gave to Formatter::format
    gpc,          \* position in generate_changelog
    blocks,       \* history: the commits git log printed, [header, message]
    raw,          \* the text run_command_or returned to collect_commits
    parsed,       \* what collect_commits collected: records [id, message]
    shortened,    \* the Option<String> returned by CommitShortener::shorten
    \* ---- update_changelog ----
    changelog,    \* bytes held by the changelog path
    tmpfile,      \* the file '<changelog>.tmp': <<>> absent, <<bytes>> present
    stdout,       \* bytes written to standard output
    text,         \* the `text` argument (the new section)
    in_place,     \* the `in_place` argument
    pc,           \* position in update_changelog
    inserted,     \* the local `inserted`
    input,        \* bytes of the opened input not yet read by `reader`
    line,         \* the local `line` of the loop body
    result,       \* "none" while running, then "Ok" or "Err"
    runs,         \* number of the current invocation
    doc0,         \* history: bytes of the changelog when this invocation started
    orig,         \* history: bytes of the changelog before the first invocation
    seen          \* what another process last read from the changelog path

genvars == <<commits, tag, classified, section, today, gpc, blocks, raw, parsed, shortened>>
updvars == <<changelog, tmpfile, stdout, text, in_place, pc, inserted, input,
             line, result, runs, doc0, orig, seen>>
vars == <<commits, tag, classified, section, today, gpc, blocks, raw, parsed, shortened,
          changelog, tmpfile, stdout, text, in_place, pc, inserted, input,
          line, result, runs, doc0, orig, seen>>

-----------------------------------------------------------------------------
(* Bounds of the model.                                                    *)

MaxCommits == 3

MaxDocLines == 3

MaxRuns == 2

-----------------------------------------------------------------------------
(* Characters and character classes of the regex crate.                    *)

Digit == {"0", "1", "2", "3", "4", "5", "6", "7", "8", "9"}

Upper == {"A", "B", "C", "D", "E", "F", "G", "H", "I", "J", "K", "L", "M",
          "N", "O", "P", "Q", "R", "S", "T", "U", "V", "W", "X", "Y", "Z"}

Lower == {"a", "b", "c", "d", "e", "f", "g", "h", "i", "j", "k", "l", "m",
          "n", "o", "p", "q", "r", "s", "t", "u", "v", "w", "x", "y", "z"}

\* code point order of the characters the model uses (String's Ord is bytewise)
CharOrder == <<"\t", "\n", "\f", "\r", " ", "#", "(", ")", ",", "-", ".">>
             \o <<"0", "1", "2", "3", "4", "5", "6", "7", "8", "9", ":">>
             \o <<"A", "B", "C", "D", "E", "F", "G", "H", "I", "J", "K", "L", "M",
                  "N", "O", "P", "Q", "R", "S", "T", "U", "V", "W", "X", "Y", "Z">>
             \o <<"[", "]", "_">>
             \o <<"a", "b", "c", "d", "e", "f", "g", "h", "i", "j", "k", "l", "m",
                  "n", "o", "p", "q", "r", "s", "t", "u", "v", "w", "x", "y", "z">>

Ord(c) == CHOOSE i \in 1..Len(CharOrder) : CharOrder[i] = c

\* a class is [neg, chars]: the characters in chars, or all the others
Only(S) == [neg |-> FALSE, chars |-> S]

ClsSpace == Only({" ", "\t", "\n", "\r", "\f"})             \* \s
ClsWord == Only(Upper \cup Lower \cup Digit \cup {"_"})      \* \w
ClsDigit == Only(Digit)                                      \* \d
ClsDot == [neg |-> TRUE, chars |-> {"\n"}]                   \* .
ClsAny == [neg |-> TRUE, chars |-> {}]

InClass(c, cls) == (c \in cls.chars) # cls.neg

-----------------------------------------------------------------------------
(* Regular expressions.  A regex is a set of alternatives; an alternative  *)
(* is a sequence of items [cls, lo, many]: exactly lo characters of cls,   *)
(* or lo and more when many.                                               *)

One(cls) == {<<[cls |-> cls, lo |-> 1, many |-> FALSE]>>}
Rep(cls, n) == {<<[cls |-> cls, lo |-> n, many |-> FALSE]>>}
Plus(cls) == {<<[cls |-> cls, lo |-> 1, many |-> TRUE]>>}
Star(cls) == {<<[cls |-> cls, lo |-> 0, many |-> TRUE]>>}
Lit(s) == {[i \in 1..Len(s) |-> [cls |-> Only({s[i]}), lo |-> 1, many |-> FALSE]]}
Opt(A) == A \cup {<<>>}
Cat(A, B) == {a \o b : a \in A, b \in B}

RECURSIVE CatAll(_)
CatAll(rs) == IF rs = <<>> THEN {<<>>} ELSE Cat(Head(rs), CatAll(Tail(rs)))

\* how many characters of s from position j on are in cls, at most limit
RunLength(s, j, cls, limit) ==
    LET bad == {m \in j..(j + limit - 1) : ~InClass(s[m], cls)}
    IN  IF bad = {} THEN limit
        ELSE (CHOOSE m \in bad : \A o \in bad : m <= o) - j

\* the alternative p, from item i on, matches s from position j to its end
RECURSIVE MatchFrom(_, _, _, _)
MatchFrom(p, i, s, j) ==
    IF i > Len(p) THEN j = Len(s) + 1
    ELSE LET it == p[i]
             avail == Len(s) - j + 1
             maxk == IF it.many THEN avail ELSE it.lo
         IN  /\ it.lo <= avail
             /\ \E k \in it.lo..RunLength(s, j, it.cls, maxk) :
                   MatchFrom(p, i + 1, s, j + k)

\* Regex::is_match for a regex written ^...$
IsMatch(re, s) == \E p \in re : MatchFrom(p, 1, s, 1)

\* Regex::is_match for a regex written ^... with no closing $
IsPrefixMatch(re, s) == IsMatch(Cat(re, Star(ClsAny)), s)

-----------------------------------------------------------------------------
(* Lines of a text.                                                        *)

FirstNewline(s) ==
    LET nl == {i \in 1..Len(s) : s[i] = "\n"}
    IN  IF nl = {} THEN 0 ELSE CHOOSE i \in nl : \A k \in nl : i <= k

StripCR(s) == IF Len(s) > 0 /\ s[Len(s)] = "\r" THEN SubSeq(s, 1, Len(s) - 1) ELSE s

\* the next line of s as BufRead::lines and str::lines return it: up to the
\* first "\n", without it and without one "\r" before it; a last line with
\* no "\n" is returned as it is
NextLine(s) ==
    LET n == FirstNewline(s)
    IN  IF n = 0 THEN s ELSE StripCR(SubSeq(s, 1, n - 1))

AfterLine(s) ==
    LET n == FirstNewline(s)
    IN  IF n = 0 THEN <<>> ELSE SubSeq(s, n + 1, Len(s))

RECURSIVE Lines(_)
Lines(s) == IF s = <<>> THEN <<>> ELSE <<NextLine(s)>> \o Lines(AfterLine(s))

RECURSIVE Concat(_)
Concat(ss) == IF ss = <<>> THEN <<>> ELSE Head(ss) \o Concat(Tail(ss))

RECURSIVE Join(_, _)
Join(ss, sep) ==
    IF ss = <<>> THEN <<>>
    ELSE IF Len(ss) = 1 THEN ss[1]
    ELSE ss[1] \o sep \o Join(Tail(ss), sep)

\* String's ordering: lexicographic on code points
RECURSIVE LexLess(_, _)
LexLess(a, b) ==
    IF b = <<>> THEN FALSE
    ELSE IF a = <<>> THEN TRUE
    ELSE IF a[1] = b[1] THEN LexLess(Tail(a), Tail(b))
    ELSE Ord(a[1]) < Ord(b[1])

RECURSIVE Insert(_, _)
Insert(x, sorted) ==
    IF sorted = <<>> THEN <<x>>
    ELSE IF LexLess(sorted[1], x) THEN <<sorted[1]>> \o Insert(x, Tail(sorted))
    ELSE <<x>> \o sorted

RECURSIVE Sort(_)
Sort(ss) == IF ss = <<>> THEN <<>> ELSE Insert(Head(ss), Sort(Tail(ss)))

-----------------------------------------------------------------------------
(* Commit and CommitClassifier.  An Option is a sequence of length 0 or 1. *)

None == <<>>
Some(x) == <<x>>

\* Commit::brief
brief(message) ==
    IF Lines(message) = <<>> THEN None ELSE Some(Lines(message)[1])

AddWord == Cat(Cat(One(Only({"A", "a"})), Lit(<<"d", "d">>)), Opt(Lit(<<"e", "d">>)))
               \cup Cat(One(Only({"N", "n"})), Lit(<<"e", "w">>))
FixWord == Cat(Cat(One(Only({"F", "f"})), Lit(<<"i", "x">>)), Opt(Lit(<<"e", "d">>)))
KickOff == Cat(One(Only({"K", "k"})), Lit(<<"i", "c", "k", " ", "o", "f", "f">>))
BumpWord == Cat(Cat(One(Only({"B", "b"})), Lit(<<"u", "m", "p">>)), Opt(Lit(<<"e", "d">>)))
BuildFile == Lit(<<"c", "o", "n", "f", "i", "g", "u", "r", "e">>) \cup Lit(<<"m", "e", "s", "o", "n">>) \cup Lit(<<"C", "M", "a", "k", "e", "L", "i", "s", "t", "s">>)
                 \cup Lit(<<"v", "e", "r", "s", "i", "o", "n">>)

add_patterns == <<
    CatAll(<<AddWord, Plus(ClsSpace), Plus(ClsDot)>>),
    CatAll(<<Plus(ClsDot), Lit(<<":">>), Plus(ClsSpace), AddWord, Plus(ClsSpace),
             Plus(ClsDot)>>) >>

fix_patterns == <<
    CatAll(<<FixWord, Plus(ClsSpace), Plus(ClsDot)>>),
    CatAll(<<Plus(ClsDot), Plus(ClsSpace), FixWord, Plus(ClsSpace), Plus(ClsDot)>>) >>

bump_patterns == <<
    CatAll(<<KickOff, Plus(ClsSpace), Plus(ClsDot)>>),
    CatAll(<<BuildFile, Lit(<<":">>), Plus(ClsSpace), KickOff, Plus(ClsSpace),
             Plus(ClsDot)>>),
    CatAll(<<BumpWord, Plus(ClsSpace), Lit(<<"v", "e", "r", "s", "i", "o", "n">>), Plus(ClsDot)>>),
    CatAll(<<BuildFile, Lit(<<":">>), Plus(ClsSpace), BumpWord, Plus(ClsSpace),
             Lit(<<"v", "e", "r", "s", "i", "o", "n">>), One(ClsSpace), Plus(ClsDot)>>),
    CatAll(<<Lit(<<"v", "e", "r", "s", "i", "o", "n">>) \cup Lit(<<"V", "E", "R", "S", "I", "O", "N">>), Lit(<<":">>), Plus(ClsSpace),
             BumpWord, Plus(ClsDot)>>) >>

\* the precedence-swapped table a wrong `match kind` would select
check_kind_swapped(kind, message) ==
    LET patterns == CASE kind = "Addition" -> fix_patterns
                      [] kind = "Bump" -> bump_patterns
                      [] kind = "Fix" -> add_patterns
    IN  \E n \in 1..Len(patterns) : IsMatch(patterns[n], message)

\* CommitClassifier::check_kind
check_kind(kind, message) ==
    LET patterns == CASE kind = "Addition" -> add_patterns
                      [] kind = "Bump" -> bump_patterns
                      [] kind = "Fix" -> fix_patterns
    IN  \E n \in 1..Len(patterns) : IsMatch(patterns[n], message)

\* c.brief().map_or(false, |m| self.check_kind(kind, m))
IsKind(cs, i, kind) ==
    brief(cs[i]) # None /\ check_kind(kind, brief(cs[i])[1])

\* a classify whose second partition runs on all commits, not on the remainder
classify_no_remainder(cs) ==
    LET all == [i \in 1..Len(cs) |-> i]
        additions == SelectSeq(all, LAMBDA i : IsKind(cs, i, "Addition"))
        fixes == SelectSeq(all, LAMBDA i : IsKind(cs, i, "Fix"))
        others2 == SelectSeq(all, LAMBDA i : ~IsKind(cs, i, "Fix"))
        changes == SelectSeq(others2, LAMBDA i : ~IsKind(cs, i, "Bump"))
    IN  [additions |-> additions, changes |-> changes, fixes |-> fixes]

\* CommitClassifier::classify; a &Commit is the index of the commit in cs
classify(cs) ==
    LET all == [i \in 1..Len(cs) |-> i]
        additions == SelectSeq(all, LAMBDA i : IsKind(cs, i, "Addition"))
        others1 == SelectSeq(all, LAMBDA i : ~IsKind(cs, i, "Addition"))
        fixes == SelectSeq(others1, LAMBDA i : IsKind(cs, i, "Fix"))
        others2 == SelectSeq(others1, LAMBDA i : ~IsKind(cs, i, "Fix"))
        changes == SelectSeq(others2, LAMBDA i : ~IsKind(cs, i, "Bump"))
    IN  [additions |-> additions, changes |-> changes, fixes |-> fixes]

-----------------------------------------------------------------------------
(* CommitShortener, format_md_section and Formatter.                       *)

bug_patterns == <<
    CatAll(<<Lit(<<"B", "u", "g">>), One(ClsSpace), Plus(ClsDigit), Lit(<<":">>), Star(ClsDot)>>),
    CatAll(<<Lit(<<"J", "I", "R", "A", ":">>), One(ClsSpace), Plus(ClsWord)>>),
    CatAll(<<Lit(<<"C", "S">>), Plus(ClsDigit)>>) >>

IsBugLine(l) == \E n \in 1..Len(bug_patterns) : IsPrefixMatch(bug_patterns[n], l)

\* a shorten that looks for bug references below the brief only
shorten_body_only(message) ==
    LET bugs == SelectSeq(Tail(Lines(message)), IsBugLine)
    IN  IF brief(message) = None THEN None
        ELSE IF bugs # <<>>
             THEN Some(brief(message)[1] \o <<" ", "(">> \o Join(bugs, <<",">>) \o <<")">>)
             ELSE Some(brief(message)[1])

\* CommitShortener::shorten
shorten(message) ==
    LET bugs == SelectSeq(Lines(message), IsBugLine)
    IN  IF brief(message) = None THEN None
        ELSE IF bugs # <<>>
             THEN Some(brief(message)[1] \o <<" ", "(">> \o Join(bugs, <<",">>) \o <<")">>)
             ELSE Some(brief(message)[1])

RECURSIVE Repeat(_, _)
Repeat(s, n) == IF n = 0 THEN <<>> ELSE s \o Repeat(s, n - 1)

RECURSIVE Bullets(_)
Bullets(items) ==
    IF items = <<>> THEN <<>>
    ELSE <<"-", " ">> \o Head(items) \o <<"\n">> \o Bullets(Tail(items))

\* a format_md_section without the early return for no items
format_md_section_always(level, title, items) ==
    Repeat(<<"#">>, level) \o <<" ">> \o title \o <<"\n", "\n">> \o Bullets(items) \o <<"\n">>

\* format_md_section
format_md_section(level, title, items) ==
    IF items = <<>> THEN <<>>
    ELSE Repeat(<<"#">>, level) \o <<" ">> \o title \o <<"\n", "\n">> \o Bullets(items) \o <<"\n">>

RECURSIVE FilterMapShorten(_, _)
FilterMapShorten(cs, refs) ==
    IF refs = <<>> THEN <<>>
    ELSE shorten(cs[Head(refs)]) \o FilterMapShorten(cs, Tail(refs))

\* the shortened lines left in the order of the bucket
shorten_all_unsorted(cs, refs) == FilterMapShorten(cs, refs)

\* Formatter::shorten
shorten_all(cs, refs) == Sort(FilterMapShorten(cs, refs))

DigitChar(n) == <<"0", "1", "2", "3", "4", "5", "6", "7", "8", "9">>[n + 1]

\* n in decimal, zero-padded to width w (chrono's %Y, %m, %d)
RECURSIVE Padded(_, _)
Padded(n, w) == IF w = 0 THEN <<>> ELSE Padded(n \div 10, w - 1) \o <<DigitChar(n % 10)>>

\* timestamp.format("%Y-%m-%d")
FormatDate(d) == Padded(d.y, 4) \o <<"-">> \o Padded(d.m, 2) \o <<"-">> \o Padded(d.d, 2)

\* Formatter::format, with the value of Utc::now() as a parameter
format(cs, cl, t, now) ==
    LET additions == shorten_all(cs, cl.additions)
        changes == shorten_all(cs, cl.changes)
        fixes == shorten_all(cs, cl.fixes)
    IN  <<"#", "#", " ", "[">> \o t \o <<"]", " ", "-", " ">> \o FormatDate(now) \o <<"\n">>
        \o format_md_section(3, <<"A", "d", "d", "e", "d">>, additions)
        \o format_md_section(3, <<"C", "h", "a", "n", "g", "e", "d">>, changes)
        \o format_md_section(3, <<"F", "i", "x", "e", "d">>, fixes)

-----------------------------------------------------------------------------
(* generate_changelog: classify the commits, then format the section.      *)

MsgAdded == <<"A", "d", "d", "e", "d", " ", "s", "u", "p", "p", "o", "r", "t", " ", "f", "o", "r", " ", "X">>
MsgFixed == <<"F", "i", "x", "e", "d", " ", "a", " ", "c", "r", "a", "s", "h">>
MsgBump == <<"B", "u", "m", "p", " ", "v", "e", "r", "s", "i", "o", "n", " ", "t", "o", " ", "1", ".", "2", ".", "3">>
MsgRefactor == <<"R", "e", "f", "a", "c", "t", "o", "r", " ", "i", "n", "t", "e", "r", "n", "a", "l", "s">>
MsgEmpty == <<>>
MsgAll == <<"v", "e", "r", "s", "i", "o", "n", ":", " ", "b", "u", "m", "p", "e", "d", ":", " ", "a", "d", "d", " ", "a", " ", "f", "i", "x", " ", "n", "o", "w">>
MsgFixBump == <<"B", "u", "m", "p", " ", "v", "e", "r", "s", "i", "o", "n", " ", "t", "o", " ", "f", "i", "x", " ", "Z">>
MsgFixedBug == <<"F", "i", "x", "e", "d", " ", "a", " ", "c", "r", "a", "s", "h", "\n", "\n", "B", "u", "g", " ", "1", "2", ":", " ", "b", "o", "o", "m">>
MsgLateAdded == <<"\n", "A", "d", "d", "e", "d", " ", "l", "a", "t", "e">>

Messages == {MsgAdded, MsgFixed, MsgBump, MsgRefactor, MsgEmpty, MsgAll,
             MsgFixBump, MsgFixedBug, MsgLateAdded}

Tags == {<<"1", ".", "4", ".", "0">>}

Dates == {[y |-> 2023, m |-> 2, d |-> 2]}

NoBuckets == [additions |-> <<>>, changes |-> <<>>, fixes |-> <<>>]

IdleUpdate ==
    /\ changelog = <<>> /\ tmpfile = None /\ stdout = <<>> /\ text = <<>>
    /\ in_place = FALSE /\ pc = "idle" /\ inserted = FALSE /\ input = <<>>
    /\ line = <<>> /\ result = "none" /\ runs = 0 /\ doc0 = <<>> /\ orig = <<>>
    /\ seen = None

InitGen ==
    /\ \E n \in 0..MaxCommits : commits \in [1..n -> Messages]
    /\ tag \in Tags
    /\ classified = NoBuckets
    /\ section = <<>>
    /\ today = [y |-> 0, m |-> 0, d |-> 0]
    /\ gpc = "collected"
    /\ blocks = <<>>
    /\ raw = <<>>
    /\ parsed = <<>>
    /\ shortened = None
    /\ IdleUpdate

\* let commits = classifier.classify(&commits);
Classify ==
    /\ gpc = "collected"
    /\ classified' = classify(commits)
    /\ gpc' = "classified"
    /\ UNCHANGED <<commits, tag, section, today, blocks, raw, parsed, shortened>>
    /\ UNCHANGED updvars

\* let text = formatter.format(&commits, new_tag);
Format ==
    /\ gpc = "classified"
    /\ \E now \in Dates :
          /\ today' = now
          /\ section' = format(commits, classified, tag, now)
    /\ gpc' = "formatted"
    /\ UNCHANGED <<commits, tag, classified, blocks, raw, parsed, shortened>>
    /\ UNCHANGED updvars

NextGen == Classify \/ Format

SpecGen == InitGen /\ [][NextGen]_vars

-----------------------------------------------------------------------------
(* Claims about classify.                                                  *)

Range(s) == {s[k] : k \in 1..Len(s)}

NoRepeat(s) == Cardinality(Range(s)) = Len(s)

\* C1: classify puts every commit in at most one of additions, changes and
\* fixes: the buckets are pairwise disjoint, no commit occurs twice in a
\* bucket, and every member of a bucket is a commit of the input list.
C1_Partition ==
    gpc = "classified" =>
        /\ Range(classified.additions) \cap Range(classified.changes) = {}
        /\ Range(classified.additions) \cap Range(classified.fixes) = {}
        /\ Range(classified.changes) \cap Range(classified.fixes) = {}
        /\ NoRepeat(classified.additions)
        /\ NoRepeat(classified.changes)
        /\ NoRepeat(classified.fixes)
        /\ Range(classified.additions) \cup Range(classified.changes)
              \cup Range(classified.fixes) \subseteq 1..Len(commits)

MatchesFamily(patterns, b) == \E n \in 1..Len(patterns) : IsMatch(patterns[n], b)

\* a classified list with the three buckets in use and a commit whose brief
\* matches the Addition, the Fix and the Bump family
C1_Witness ==
    /\ gpc = "classified"
    /\ classified.additions # <<>>
    /\ classified.changes # <<>>
    /\ classified.fixes # <<>>
    /\ \E i \in 1..Len(commits) :
          /\ brief(commits[i]) # None
          /\ MatchesFamily(add_patterns, brief(commits[i])[1])
          /\ MatchesFamily(fix_patterns, brief(commits[i])[1])
          /\ MatchesFamily(bump_patterns, brief(commits[i])[1])

BucketsOf(i) ==
    {b \in {"additions", "changes", "fixes"} : i \in Range(classified[b])}

\* the bucket the stated precedence gives a message: Addition, then Fix, then
\* Bump (no bucket), then Change; no brief is a Change
ExpectedBuckets(message) ==
    LET b == brief(message)
    IN  IF b = None THEN {"changes"}
        ELSE IF MatchesFamily(add_patterns, b[1]) THEN {"additions"}
        ELSE IF MatchesFamily(fix_patterns, b[1]) THEN {"fixes"}
        ELSE IF MatchesFamily(bump_patterns, b[1]) THEN {}
        ELSE {"changes"}

\* C2: classify decides each commit from its brief alone with the precedence
\* Addition, Fix, Bump (dropped), Change; a commit with no brief is a Change;
\* "Added support for X" is an addition, "Fixed a crash" a fix, "Bump version
\* to 1.2.3" is in no bucket and "Refactor internals" is a change.
C2_Precedence ==
    gpc = "classified" =>
        \A i \in 1..Len(commits) :
            /\ BucketsOf(i) = ExpectedBuckets(commits[i])
            /\ commits[i] = MsgAdded => BucketsOf(i) = {"additions"}
            /\ commits[i] = MsgFixed => BucketsOf(i) = {"fixes"}
            /\ commits[i] = MsgBump => BucketsOf(i) = {}
            /\ commits[i] = MsgRefactor => BucketsOf(i) = {"changes"}
            /\ commits[i] = MsgEmpty => BucketsOf(i) = {"changes"}
            /\ commits[i] = MsgLateAdded => BucketsOf(i) = {"changes"}
            /\ commits[i] = MsgFixedBug => BucketsOf(i) = {"fixes"}
            /\ commits[i] = MsgAll => BucketsOf(i) = {"additions"}
            /\ commits[i] = MsgFixBump => BucketsOf(i) = {"fixes"}

\* a classified list holding a brief of two families, a dropped bump commit
\* and a commit with no brief
C2_Witness ==
    /\ gpc = "classified"
    /\ \E i, j, k \in 1..Len(commits) :
          /\ commits[i] = MsgAll /\ BucketsOf(i) = {"additions"}
          /\ commits[j] = MsgBump /\ BucketsOf(j) = {}
          /\ commits[k] = MsgEmpty /\ BucketsOf(k) = {"changes"}

-----------------------------------------------------------------------------
(* Claims about Formatter::format.                                         *)

HasPrefix(l, p) == Len(l) >= Len(p) /\ SubSeq(l, 1, Len(p)) = p

IsSubHeading(l) == HasPrefix(l, <<"#", "#", "#", " ">>)

IsBullet(l) == HasPrefix(l, <<"-", " ">>)

\* the commits of a bucket that have a brief, hence a shortened line
WithBrief(refs) == SelectSeq(refs, LAMBDA i : brief(commits[i]) # None)

SubsectionTitles ==
    <<[title |-> <<"#", "#", "#", " ", "A", "d", "d", "e", "d">>, bucket |-> "additions"],
      [title |-> <<"#", "#", "#", " ", "C", "h", "a", "n", "g", "e", "d">>, bucket |-> "changes"],
      [title |-> <<"#", "#", "#", " ", "F", "i", "x", "e", "d">>, bucket |-> "fixes"]>>

ExpectedTitles ==
    LET present == SelectSeq(SubsectionTitles,
                             LAMBDA t : WithBrief(classified[t.bucket]) # <<>>)
    IN  [k \in 1..Len(present) |-> present[k].title]

\* the lines of ls after line k up to the next subsection heading
BodyAfter(ls, k) ==
    LET later == {n \in (k + 1)..Len(ls) : IsSubHeading(ls[n])}
        stop == IF later = {} THEN Len(ls) + 1
                ELSE CHOOSE n \in later : \A o \in later : n <= o
    IN  SubSeq(ls, k + 1, stop - 1)

Count(s, x) == Cardinality({k \in 1..Len(s) : s[k] = x})

\* the body is blank lines and one bullet per shortened line of refs
BodyListsBucket(body, refs) ==
    LET bullets == SelectSeq(body, IsBullet)
        items == [k \in 1..Len(bullets) |-> SubSeq(bullets[k], 3, Len(bullets[k]))]
        with == WithBrief(refs)
        short == [k \in 1..Len(with) |-> shorten(commits[with[k]])[1]]
    IN  /\ Len(items) = Len(short)
        /\ \A k \in 1..Len(short) : Count(items, short[k]) = Count(short, short[k])
        /\ \A k \in 1..Len(body) : IsBullet(body[k]) \/ body[k] = <<>>

\* C10: format returns the heading '## [<tag>] - <date>' followed by the
\* subsections Added, Changed, Fixed in that order, each present exactly when
\* its bucket yields a shortened line, each listing one '- ' bullet per
\* shortened line of its own bucket.
C10_Section ==
    gpc = "formatted" =>
        LET ls == Lines(section)
        IN  /\ ls # <<>>
            /\ ls[1] = <<"#", "#", " ", "[">> \o tag \o <<"]", " ", "-", " ">> \o FormatDate(today)
            /\ (tag = <<"1", ".", "4", ".", "0">> /\ today = [y |-> 2023, m |-> 2, d |-> 2])
                  => ls[1] = <<"#", "#", " ", "[", "1", ".", "4", ".", "0", "]", " ", "-", " ", "2", "0", "2", "3", "-", "0", "2", "-", "0", "2">>
            /\ BodyAfter(ls, 1) = <<>>
            /\ SelectSeq(ls, IsSubHeading) = ExpectedTitles
            /\ \A t \in Range(SubsectionTitles) :
                  \A k \in 1..Len(ls) :
                      ls[k] = t.title =>
                          BodyListsBucket(BodyAfter(ls, k), classified[t.bucket])

\* a section with an Added subsection only, although the changes bucket
\* holds a commit (one with no brief)
C10_Witness ==
    /\ gpc = "formatted"
    /\ classified.changes # <<>>
    /\ WithBrief(classified.changes) = <<>>
    /\ classified.fixes = <<>>
    /\ Len(classified.additions) = 2
    /\ \E i \in Range(classified.additions) : commits[i] = MsgAll
    /\ SelectSeq(Lines(section), IsSubHeading) = <<<<"#", "#", "#", " ", "A", "d", "d", "e", "d">>>>

-----------------------------------------------------------------------------
(* update_changelog: one action per I/O call of the function.  Every call  *)
(* can fail; a failing write can leave any proper prefix of its bytes.     *)

\* a heading pattern that forgot the brackets around the tag
pat_unbracketed ==
    CatAll(<<Lit(<<"#", "#">>), Plus(ClsSpace),
             Plus(Only(Upper \cup Lower \cup Digit \cup {"_", "-", "."})),
             Plus(ClsSpace), Lit(<<"-">>), Plus(ClsSpace),
             Rep(ClsDigit, 4), Lit(<<"-">>), Rep(ClsDigit, 2), Lit(<<"-">>),
             Rep(ClsDigit, 2)>>)

\* let pat = Regex::new(r"^##\s+\[[\w\-.]+\]\s+-\s+[\d]{4}-[\d]{2}-[\d]{2}$")
pat ==
    CatAll(<<Lit(<<"#", "#">>), Plus(ClsSpace), Lit(<<"[">>),
             Plus(Only(Upper \cup Lower \cup Digit \cup {"_", "-", "."})),
             Lit(<<"]">>), Plus(ClsSpace), Lit(<<"-">>), Plus(ClsSpace),
             Rep(ClsDigit, 4), Lit(<<"-">>), Rep(ClsDigit, 2), Lit(<<"-">>),
             Rep(ClsDigit, 2)>>)

\* lines a changelog is made of
LineOld == <<"#", "#", " ", "[", "1", ".", "3", "]", " ", "-", " ", "2", "0", "2", "3", "-", "0", "1", "-", "0", "1">>
LineTitle == <<"#", " ", "N", "e", "w", "s">>
LineBare == <<"#", "#", " ", "1", ".", "3", " ", "-", " ", "2", "0", "2", "3", "-", "0", "1", "-", "0", "1">>

DocLines == {LineOld, LineTitle, LineBare}

Eols == {<<"\n">>, <<"\r", "\n">>}

\* the file made of the lines ls, each ended by eol, the last one only if fin
RECURSIVE DocOf(_, _, _)
DocOf(ls, eol, fin) ==
    IF ls = <<>> THEN <<>>
    ELSE IF Len(ls) = 1 THEN ls[1] \o (IF fin THEN eol ELSE <<>>)
    ELSE ls[1] \o eol \o DocOf(Tail(ls), eol, fin)

\* the sections main() passes: what format returns for a fix commit and the
\* tag 1.4, and for no commit and a tag that is no changelog token
Sections ==
    { format(<<MsgFixed>>, classify(<<MsgFixed>>), <<"1", ".", "4">>, [y |-> 2023, m |-> 2, d |-> 2]),
      format(<<>>, classify(<<>>), <<"1", "/", "4">>, [y |-> 2023, m |-> 2, d |-> 2]) }

IdleGen ==
    /\ commits = <<>> /\ tag = <<>> /\ classified = NoBuckets /\ section = <<>>
    /\ today = [y |-> 0, m |-> 0, d |-> 0] /\ gpc = "idle"
    /\ blocks = <<>> /\ raw = <<>> /\ parsed = <<>> /\ shortened = None

Init ==
    /\ IdleGen
    /\ \E n \in 0..MaxDocLines : \E ls \in [1..n -> DocLines] :
          \E eol \in Eols : \E fin \in BOOLEAN : changelog = DocOf(ls, eol, fin)
    /\ doc0 = changelog
    /\ orig = changelog
    /\ seen = None
    /\ tmpfile = None
    /\ stdout = <<>>
    /\ text \in Sections
    /\ in_place \in BOOLEAN
    /\ pc = "open"
    /\ inserted = FALSE
    /\ input = <<>>
    /\ line = <<>>
    /\ result = "none"
    /\ runs = 1

\* an I/O call returns Err and the ? operator leaves the function
Fail ==
    /\ pc' = "failed"
    /\ result' = "Err"

\* write!(writer, ...) of bytes succeeds
Emit(bytes) ==
    IF in_place
    THEN tmpfile' = Some(tmpfile[1] \o bytes) /\ UNCHANGED stdout
    ELSE stdout' = stdout \o bytes /\ UNCHANGED tmpfile

\* write!(writer, ...) of bytes fails after k of them
EmitPart(bytes) ==
    \E k \in 0..(Len(bytes) - 1) : Emit(SubSeq(bytes, 1, k))

\* let input = File::open(&changelog)?; let reader = BufReader::new(input);
Open ==
    /\ pc = "open"
    /\ input' = changelog
    /\ pc' = "writer"
    /\ UNCHANGED <<changelog, tmpfile, stdout, text, in_place, inserted, line,
                   result, runs, doc0, orig, seen>>
    /\ UNCHANGED genvars

OpenFail ==
    /\ pc = "open"
    /\ Fail
    /\ UNCHANGED <<changelog, tmpfile, stdout, text, in_place, inserted, input,
                   line, runs, doc0, orig, seen>>
    /\ UNCHANGED genvars

\* a File::create on the changelog path itself
Create_on_changelog ==
    /\ pc = "writer"
    /\ in_place
    /\ changelog' = <<>>
    /\ tmpfile' = Some(<<>>)
    /\ pc' = "loop"
    /\ UNCHANGED <<stdout, text, in_place, inserted, input, line, result,
                   runs, doc0, orig, seen>>
    /\ UNCHANGED genvars

\* true => { let file = File::create(&tmp)?; Box::new(file) }
Create ==
    /\ pc = "writer"
    /\ in_place
    /\ tmpfile' = Some(<<>>)
    /\ pc' = "loop"
    /\ UNCHANGED <<changelog, stdout, text, in_place, inserted, input, line,
                   result, runs, doc0, orig, seen>>
    /\ UNCHANGED genvars

CreateFail ==
    /\ pc = "writer"
    /\ in_place
    /\ Fail
    /\ UNCHANGED <<changelog, tmpfile, stdout, text, in_place, inserted, input,
                   line, runs, doc0, orig, seen>>
    /\ UNCHANGED genvars

\* false => Box::new(stdout())
UseStdout ==
    /\ pc = "writer"
    /\ ~in_place
    /\ pc' = "loop"
    /\ UNCHANGED <<changelog, tmpfile, stdout, text, in_place, inserted, input,
                   line, result, runs, doc0, orig, seen>>
    /\ UNCHANGED genvars

\* a loop head that inserts before every heading, `inserted` not consulted
ReadLine_always_insert ==
    /\ pc = "loop"
    /\ input # <<>>
    /\ line' = NextLine(input)
    /\ input' = AfterLine(input)
    /\ pc' = IF IsMatch(pat, NextLine(input)) THEN "text" ELSE "line"
    /\ UNCHANGED <<changelog, tmpfile, stdout, text, in_place, inserted, result,
                   runs, doc0, orig, seen>>
    /\ UNCHANGED genvars

\* for line in reader.lines() { let line = line?;
\*     if pat.is_match(&line) { if !inserted {
ReadLine ==
    /\ pc = "loop"
    /\ input # <<>>
    /\ line' = NextLine(input)
    /\ input' = AfterLine(input)
    /\ pc' = IF IsMatch(pat, NextLine(input)) /\ ~inserted THEN "text" ELSE "line"
    /\ UNCHANGED <<changelog, tmpfile, stdout, text, in_place, inserted, result,
                   runs, doc0, orig, seen>>
    /\ UNCHANGED genvars

\* let line = line?; with an Err from the reader
ReadFail ==
    /\ pc = "loop"
    /\ Fail
    /\ UNCHANGED <<changelog, tmpfile, stdout, text, in_place, inserted, input,
                   line, runs, doc0, orig, seen>>
    /\ UNCHANGED genvars

\* write!(writer, "{}", text)?; inserted = true;
WriteText ==
    /\ pc = "text"
    /\ Emit(text)
    /\ inserted' = TRUE
    /\ pc' = "line"
    /\ UNCHANGED <<changelog, text, in_place, input, line, result, runs, doc0, orig, seen>>
    /\ UNCHANGED genvars

WriteTextFail ==
    /\ pc = "text"
    /\ EmitPart(text)
    /\ Fail
    /\ UNCHANGED <<changelog, text, in_place, inserted, input, line, runs, doc0, orig, seen>>
    /\ UNCHANGED genvars

\* write!(writer, "{}\n", line)?;
WriteLine ==
    /\ pc = "line"
    /\ Emit(line \o <<"\n">>)
    /\ pc' = "loop"
    /\ UNCHANGED <<changelog, text, in_place, inserted, input, line, result,
                   runs, doc0, orig, seen>>
    /\ UNCHANGED genvars

WriteLineFail ==
    /\ pc = "line"
    /\ EmitPart(line \o <<"\n">>)
    /\ Fail
    /\ UNCHANGED <<changelog, text, in_place, inserted, input, line, runs, doc0, orig, seen>>
    /\ UNCHANGED genvars

\* an end of loop that appends the section when no heading was found
EndOfInput_append ==
    /\ pc = "loop"
    /\ input = <<>>
    /\ IF inserted THEN UNCHANGED <<tmpfile, stdout>> ELSE Emit(text)
    /\ pc' = IF in_place THEN "rename" ELSE "done"
    /\ result' = IF in_place THEN result ELSE "Ok"
    /\ UNCHANGED <<changelog, text, in_place, inserted, input, line, runs, doc0, orig, seen>>
    /\ UNCHANGED genvars

\* reader.lines() is exhausted: if in_place { rename } else Ok(())
EndOfInput ==
    /\ pc = "loop"
    /\ input = <<>>
    /\ pc' = IF in_place THEN "rename" ELSE "done"
    /\ result' = IF in_place THEN result ELSE "Ok"
    /\ UNCHANGED <<changelog, tmpfile, stdout, text, in_place, inserted, input,
                   line, runs, doc0, orig, seen>>
    /\ UNCHANGED genvars

\* a copy of the temporary file over the changelog, the temporary file kept
Rename_copy ==
    /\ pc = "rename"
    /\ changelog' = tmpfile[1]
    /\ pc' = "done"
    /\ result' = "Ok"
    /\ UNCHANGED <<tmpfile, stdout, text, in_place, inserted, input, line, runs,
                   doc0, orig, seen>>
    /\ UNCHANGED genvars

\* rename(&tmp, &changelog)?; Ok(())
Rename ==
    /\ pc = "rename"
    /\ changelog' = tmpfile[1]
    /\ tmpfile' = None
    /\ pc' = "done"
    /\ result' = "Ok"
    /\ UNCHANGED <<stdout, text, in_place, inserted, input, line, runs, doc0, orig, seen>>
    /\ UNCHANGED genvars

RenameFail ==
    /\ pc = "rename"
    /\ Fail
    /\ UNCHANGED <<changelog, tmpfile, stdout, text, in_place, inserted, input,
                   line, runs, doc0, orig, seen>>
    /\ UNCHANGED genvars

\* main() is run again with the same arguments on the file it has updated (a
\* run to standard output leaves the file as it was and would repeat itself)
Rerun ==
    /\ pc = "done"
    /\ in_place
    /\ runs < MaxRuns
    /\ runs' = runs + 1
    /\ pc' = "open"
    /\ inserted' = FALSE
    /\ input' = <<>>
    /\ line' = <<>>
    /\ result' = "none"
    /\ doc0' = changelog
    /\ seen' = None
    /\ UNCHANGED <<changelog, tmpfile, stdout, text, in_place, orig>>
    /\ UNCHANGED genvars

Next ==
    \/ Open \/ OpenFail
    \/ Create \/ CreateFail \/ UseStdout
    \/ ReadLine \/ ReadFail
    \/ WriteText \/ WriteTextFail
    \/ WriteLine \/ WriteLineFail
    \/ EndOfInput
    \/ Rename \/ RenameFail
    \/ Rerun

Spec == Init /\ [][Next]_vars

-----------------------------------------------------------------------------
(* Claims about update_changelog.                                          *)

\* the release headings among the lines a changelog of the model can hold:
\* '## [TAG] - YYYY-MM-DD' with a tag of letters, digits, '_', '-' and '.'
ReleaseHeadings == {LineOld, <<"#", "#", " ", "[", "1", ".", "4", "]", " ", "-", " ", "2", "0", "2", "3", "-", "0", "2", "-", "0", "2">>}

\* index of the first release heading of the lines ls, 0 when there is none
FirstHeading(ls) ==
    LET hs == {k \in 1..Len(ls) : ls[k] \in ReleaseHeadings}
    IN  IF hs = {} THEN 0 ELSE CHOOSE k \in hs : \A o \in hs : k <= o

\* the lines ls, each followed by a line feed
Bytes(ls) == Concat([k \in 1..Len(ls) |-> ls[k] \o <<"\n">>])

\* the document d with the section t before its first release heading, and
\* the lines of d alone when it has no release heading
Merged(d, t) ==
    LET ls == Lines(d)
        k == FirstHeading(ls)
    IN  IF k = 0 THEN Bytes(ls)
        ELSE Bytes(SubSeq(ls, 1, k - 1)) \o t \o Bytes(SubSeq(ls, k, Len(ls)))

\* what the call has written the merged document to
Output == IF in_place THEN changelog ELSE stdout

\* C3: for a document with a release heading, the output is the lines before
\* the first heading, then the section text once, then the first heading line
\* and all the lines after it, later headings included, with nothing added.
C3_InsertedOnce ==
    (pc = "done" /\ FirstHeading(Lines(doc0)) # 0) =>
        LET ls == Lines(doc0)
            k == FirstHeading(ls)
        IN  Output = Bytes(SubSeq(ls, 1, k - 1)) \o text
                        \o Bytes(SubSeq(ls, k, Len(ls)))

\* an in-place run on a title line followed by two release headings
C3_Witness ==
    /\ pc = "done"
    /\ in_place
    /\ runs = 1
    /\ Lines(doc0) = <<LineTitle, LineOld, LineOld>>
    /\ changelog = Bytes(<<LineTitle>>) \o text \o Bytes(<<LineOld, LineOld>>)

\* C4: removing the inserted section from the output gives exactly the bytes
\* of the input, whatever its line terminators and whether or not its last
\* line ends with a newline.
C4_ByteIdentical ==
    pc = "done" =>
        IF FirstHeading(Lines(doc0)) = 0 THEN Output = doc0
        ELSE \E k \in 0..Len(doc0) :
                Output = SubSeq(doc0, 1, k) \o text \o SubSeq(doc0, k + 1, Len(doc0))

\* C5: when no line of the document is a release heading the section is
\* never written; the output is the original lines in their order and the
\* call returns Ok.
C5_NoHeadingPassThrough ==
    /\ (inserted \/ pc = "text") => FirstHeading(Lines(doc0)) # 0
    /\ (pc \in {"rename", "done"} /\ FirstHeading(Lines(doc0)) = 0) =>
          /\ pc = "done" => result = "Ok" /\ Output = Bytes(Lines(doc0))
          /\ pc = "rename" => tmpfile = Some(Bytes(Lines(doc0)))

\* an in-place run on a document of two lines, none a release heading
C5_Witness ==
    /\ pc = "done"
    /\ in_place
    /\ result = "Ok"
    /\ Lines(doc0) = <<LineTitle, LineBare>>
    /\ changelog = Bytes(<<LineTitle, LineBare>>)

\* C6 as stated: the section is inserted before the first release heading,
\* or appended to the document when it has no release heading.
C6_InsertOrAppend ==
    pc = "done" =>
        IF FirstHeading(Lines(doc0)) = 0
        THEN Output \in {doc0 \o text, Bytes(Lines(doc0)) \o text}
        ELSE Output = Merged(doc0, text)

\* C6: the section is inserted before the first release heading line; when
\* the document has no release heading the section is not inserted and the
\* lines of the document are written out as they are.
C6_InsertOrPassThrough ==
    pc = "done" => Output = Merged(doc0, text)

\* a run to standard output on a document with no release heading
C6_Witness ==
    /\ pc = "done"
    /\ ~in_place
    /\ Lines(doc0) = <<LineBare>>
    /\ stdout = Bytes(<<LineBare>>)
    /\ Len(text) > 0

\* C7: without in_place the merged document goes to standard output, the
\* changelog file stays as it was and no temporary file is created; with
\* in_place all output goes to the temporary file, which is renamed over the
\* changelog only once it holds the whole merged document, and is then gone.
C7_OutputTarget ==
    /\ ~in_place =>
          /\ changelog = doc0
          /\ tmpfile = None
          /\ pc = "done" => stdout = Merged(doc0, text)
    /\ in_place =>
          /\ stdout = <<>>
          /\ pc \in {"open", "writer", "loop", "text", "line", "rename"} =>
                changelog = doc0
          /\ pc = "rename" => tmpfile = Some(Merged(doc0, text))
          /\ pc = "done" => changelog = Merged(doc0, text) /\ tmpfile = None

\* a finished in-place run that changed the changelog
C7_Witness ==
    /\ pc = "done"
    /\ in_place
    /\ tmpfile = None
    /\ changelog # doc0
    /\ changelog = Merged(doc0, text)
    /\ Lines(doc0) = <<LineOld, LineTitle>>

\* C8: in an in-place update the changelog path holds the original content
\* on every failure path and the whole merged document on success, and never
\* anything else.
C8_AllOrNothing ==
    in_place =>
        /\ pc = "failed" => changelog = doc0
        /\ pc = "done" => changelog = Merged(doc0, text)
        /\ changelog # doc0 => pc = "done"

\* a write that failed after the section and part of a line were written
C8_Witness ==
    /\ pc = "failed"
    /\ in_place
    /\ inserted
    /\ tmpfile # None
    /\ Len(tmpfile[1]) > Len(text)
    /\ changelog = doc0
    /\ doc0 # <<>>

\* C9 as stated: after two in-place runs with the same section on a
\* document with a release heading, the heading line of the section occurs
\* exactly once.
C9_NoDuplicate ==
    (pc = "done" /\ in_place /\ runs = 2 /\ FirstHeading(Lines(orig)) # 0) =>
        Count(Lines(changelog), Lines(text)[1]) = 1

\* C9: there is no duplicate guard: on a document with a release heading
\* every in-place run inserts the section once more, so after two runs the
\* heading line of the section occurs twice more than in the original; on a
\* document with no release heading no run inserts it.
C9_OncePerRun ==
    (pc = "done" /\ in_place) =>
        Count(Lines(changelog), Lines(text)[1])
            = Count(Lines(orig), Lines(text)[1])
                 + (IF FirstHeading(Lines(orig)) # 0 THEN runs ELSE 0)

\* the second in-place run has put the section twice above the old heading
C9_Witness ==
    /\ pc = "done"
    /\ in_place
    /\ runs = 2
    /\ orig = Bytes(<<LineOld>>)
    /\ changelog = text \o text \o Bytes(<<LineOld>>)

-----------------------------------------------------------------------------
(* The order of the bullets: generate_changelog on commits whose shortened *)
(* lines differ in the last letter, in case and in a bug suffix.           *)

MsgAddedY == <<"A", "d", "d", "e", "d", " ", "Y">>
MsgAddedX == <<"A", "d", "d", "e", "d", " ", "X">>
MsgAddedXBug == <<"A", "d", "d", "e", "d", " ", "X", "\n", "\n", "C", "S", "1", "2">>
MsgLowerAdded == <<"a", "d", "d", "e", "d", " ", "b">>

SortMessages == {MsgAddedY, MsgAddedX, MsgAddedXBug, MsgLowerAdded, MsgFixed}

InitSort ==
    /\ \E n \in 0..MaxCommits : commits \in [1..n -> SortMessages]
    /\ tag \in Tags
    /\ classified = NoBuckets
    /\ section = <<>>
    /\ today = [y |-> 0, m |-> 0, d |-> 0]
    /\ gpc = "collected"
    /\ blocks = <<>>
    /\ raw = <<>>
    /\ parsed = <<>>
    /\ shortened = None
    /\ IdleUpdate

SpecSort == InitSort /\ [][NextGen]_vars

Perms(n) == {p \in [1..n -> 1..n] : \A i, j \in 1..n : p[i] = p[j] => i = j}

Permuted(cs, p) == [i \in 1..Len(cs) |-> cs[p[i]]]

\* the bullets of the subsection headed by line k of ls, without their '- '
BulletsAfter(ls, k) ==
    LET bullets == SelectSeq(BodyAfter(ls, k), IsBullet)
    IN  [n \in 1..Len(bullets) |-> SubSeq(bullets[n], 3, Len(bullets[n]))]

Ascending(items) == \A n \in 1..(Len(items) - 1) : ~LexLess(items[n + 1], items[n])

\* C11: in each subsection the bullets stand in ascending lexicographic
\* order, and classify followed by format returns the same section for every
\* permutation of the commit list; additions "Added Y", "Added X" are listed
\* as "Added X" then "Added Y".
C11_SortedBullets ==
    gpc = "formatted" =>
        LET ls == Lines(section)
        IN  /\ \A k \in 1..Len(ls) : IsSubHeading(ls[k]) => Ascending(BulletsAfter(ls, k))
            /\ \A p \in Perms(Len(commits)) :
                  format(Permuted(commits, p), classify(Permuted(commits, p)), tag, today)
                      = section
            /\ commits = <<MsgAddedY, MsgAddedX>> =>
                  ls = <<<<"#", "#", " ", "[", "1", ".", "4", ".", "0", "]", " ", "-", " ", "2", "0", "2", "3", "-", "0", "2", "-", "0", "2">>, <<"#", "#", "#", " ", "A", "d", "d", "e", "d">>, <<>>,
                         <<"-", " ", "A", "d", "d", "e", "d", " ", "X">>, <<"-", " ", "A", "d", "d", "e", "d", " ", "Y">>, <<>>>>

\* a section whose Added subsection lists, sorted, the lines of commits given
\* in descending order
C11_Witness ==
    /\ gpc = "formatted"
    /\ commits = <<MsgLowerAdded, MsgAddedY, MsgAddedXBug>>
    /\ \E k \in 1..Len(Lines(section)) :
          /\ Lines(section)[k] = <<"#", "#", "#", " ", "A", "d", "d", "e", "d">>
          /\ BulletsAfter(Lines(section), k)
                = <<<<"A", "d", "d", "e", "d", " ", "X", " ", "(", "C", "S", "1", "2", ")">>, <<"A", "d", "d", "e", "d", " ", "Y">>, <<"a", "d", "d", "e", "d", " ", "b">>>>

-----------------------------------------------------------------------------
(* CommitShortener::shorten applied to one commit, its message made of up  *)
(* to MaxMsgLines lines.                                                   *)

MaxMsgLines == 3

LineBug == <<"B", "u", "g", " ", "1", "2", ":", " ", "b", "o", "o", "m">>
LineJira == <<"J", "I", "R", "A", ":", " ", "A", "B", "_", "1", " ", "x">>
LineCS == <<"C", "S", "1", "2">>
LineSeeCS == <<"s", "e", "e", " ", "C", "S", "1", "2">>
LineJiraGlued == <<"J", "I", "R", "A", ":", "A", "B">>
LineBlank == <<>>

MsgLines == {MsgFixed, LineBlank, LineBug, LineJira, LineCS, LineSeeCS, LineJiraGlued}

InitShorten ==
    /\ \E n \in 0..MaxMsgLines : \E ls \in [1..n -> MsgLines] :
          commits = <<Join(ls, <<"\n">>)>>
    /\ tag = <<>>
    /\ classified = NoBuckets
    /\ section = <<>>
    /\ today = [y |-> 0, m |-> 0, d |-> 0]
    /\ gpc = "collected"
    /\ blocks = <<>>
    /\ raw = <<>>
    /\ parsed = <<>>
    /\ shortened = None
    /\ IdleUpdate

\* self.shortener.shorten(c)
Shorten ==
    /\ gpc = "collected"
    /\ commits # <<>>
    /\ shortened' = shorten(commits[1])
    /\ gpc' = "shortened"
    /\ UNCHANGED <<commits, tag, classified, section, today, blocks, raw, parsed>>
    /\ UNCHANGED updvars

SpecShorten == InitShorten /\ [][Shorten]_vars

\* the lines that carry a bug reference at their start
BugReferences == {LineBug, LineJira, LineCS}

\* C12: shorten returns None exactly when the message has no first line;
\* otherwise the brief alone when no line of the message is a bug reference,
\* else the brief followed by " (", the bug reference lines of the whole
\* message in message order joined with ",", and ")".
C12_Shorten ==
    gpc = "shortened" =>
        LET ls == Lines(commits[1])
            bugs == SelectSeq(ls, LAMBDA l : l \in BugReferences)
        IN  /\ (shortened = None) <=> (ls = <<>>)
            /\ (ls # <<>> /\ bugs = <<>>) => shortened = Some(ls[1])
            /\ (ls # <<>> /\ bugs # <<>>) =>
                  shortened = Some(ls[1] \o <<" ", "(">> \o Join(bugs, <<",">>) \o <<")">>)
            /\ commits[1] = <<"C", "S", "1", "2", "\n", "\n", "B", "u", "g", " ", "1", "2", ":", " ", "b", "o", "o", "m">> =>
                  shortened = Some(<<"C", "S", "1", "2", " ", "(", "C", "S", "1", "2", ",", "B", "u", "g", " ", "1", "2", ":", " ", "b", "o", "o", "m", ")">>)
            /\ commits[1] = <<"F", "i", "x", "e", "d", " ", "a", " ", "c", "r", "a", "s", "h", "\n", "s", "e", "e", " ", "C", "S", "1", "2", "\n", "J", "I", "R", "A", ":", "A", "B">> =>
                  shortened = Some(<<"F", "i", "x", "e", "d", " ", "a", " ", "c", "r", "a", "s", "h">>)

\* a brief that is itself a bug reference, followed by a second reference
C12_Witness ==
    /\ gpc = "shortened"
    /\ commits[1] = <<"C", "S", "1", "2", "\n", "\n", "B", "u", "g", " ", "1", "2", ":", " ", "b", "o", "o", "m">>
    /\ shortened = Some(<<"C", "S", "1", "2", " ", "(", "C", "S", "1", "2", ",", "B", "u", "g", " ", "1", "2", ":", " ", "b", "o", "o", "m", ")">>)

-----------------------------------------------------------------------------
(* collect_commits: the text of git log is split into blocks and each      *)
(* block is parsed by CommitLogParser::parse.                              *)

MaxBlocks == 2

\* str::trim_start and str::trim_end
RECURSIVE TrimStart(_)
TrimStart(s) ==
    IF s # <<>> /\ InClass(s[1], ClsSpace) THEN TrimStart(Tail(s)) ELSE s

RECURSIVE TrimEnd(_)
TrimEnd(s) ==
    IF s # <<>> /\ InClass(s[Len(s)], ClsSpace)
    THEN TrimEnd(SubSeq(s, 1, Len(s) - 1)) ELSE s

\* let pat_author = Regex::new(r"^Author:\s+(.+)<(.+)>$")
pat_author ==
    CatAll(<<Lit(<<"A", "u", "t", "h", "o", "r", ":">>), Plus(ClsSpace), Plus(ClsDot), Lit(<<"<">>),
             Plus(ClsDot), Lit(<<">">>)>>)

\* let pat_date = Regex::new(r"^Date:\s+(.+)$")
pat_date == CatAll(<<Lit(<<"D", "a", "t", "e", ":">>), Plus(ClsSpace), Plus(ClsDot)>>)

\* caps[1] of pat_date on a line it matches: \s+ is greedy and gives back one
\* character when nothing else is left for (.+)
DateCapture(l) ==
    LET rest == SubSeq(l, 6, Len(l))
        after == TrimStart(rest)
    IN  IF after # <<>> THEN after ELSE <<rest[Len(rest)]>>

DayName ==
    Lit(<<"M", "o", "n">>) \cup Lit(<<"T", "u", "e">>) \cup Lit(<<"W", "e", "d">>) \cup Lit(<<"T", "h", "u">>)
        \cup Lit(<<"F", "r", "i">>) \cup Lit(<<"S", "a", "t">>) \cup Lit(<<"S", "u", "n">>)

MonthName ==
    Lit(<<"J", "a", "n">>) \cup Lit(<<"F", "e", "b">>) \cup Lit(<<"M", "a", "r">>) \cup Lit(<<"A", "p", "r">>)
        \cup Lit(<<"M", "a", "y">>) \cup Lit(<<"J", "u", "n">>) \cup Lit(<<"J", "u", "l">>) \cup Lit(<<"A", "u", "g">>)
        \cup Lit(<<"S", "e", "p">>) \cup Lit(<<"O", "c", "t">>) \cup Lit(<<"N", "o", "v">>) \cup Lit(<<"D", "e", "c">>)

\* the timestamps DateTime::parse_from_rfc2822 accepts, as far as git log
\* --date=rfc2822 prints them: [day-name ","] day month year time zone
Rfc2822 ==
    CatAll(<<Opt(Cat(DayName, Lit(<<",", " ">>))), One(ClsDigit), Opt(One(ClsDigit)),
             Lit(<<" ">>), MonthName, Lit(<<" ">>), Rep(ClsDigit, 4), Lit(<<" ">>),
             Rep(ClsDigit, 2), Lit(<<":">>), Rep(ClsDigit, 2),
             Opt(Cat(Lit(<<":">>), Rep(ClsDigit, 2))), Lit(<<" ">>),
             One(Only({"+", "-"})), Rep(ClsDigit, 4)>>)

\* CommitLogParser::parse
parse(block) ==
    LET lines == Lines(block)
    IN  IF Len(lines) < 1 THEN None
        ELSE IF Len(lines) < 2 \/ ~IsMatch(pat_author, lines[2]) THEN None
        ELSE IF Len(lines) < 3 \/ ~IsMatch(pat_date, lines[3]) THEN None
        ELSE IF ~IsMatch(Rfc2822, DateCapture(lines[3])) THEN None
        ELSE Some([id |-> lines[1],
                   message |-> Join([k \in 1..(Len(lines) - 4) |->
                                        TrimStart(lines[k + 4])], <<"\n">>)])

\* let pattern = Regex::new(r"(?x)commit "): the x flag makes the regex
\* ignore the white space of the pattern, which leaves the word commit
pattern == <<"c", "o", "m", "m", "i", "t">>

\* the first place where lit stands in s, 0 when there is none
Find(s, lit) ==
    LET at == {i \in 1..(Len(s) - Len(lit) + 1) : SubSeq(s, i, i + Len(lit) - 1) = lit}
    IN  IF at = {} THEN 0 ELSE CHOOSE i \in at : \A j \in at : i <= j

\* Regex::split for a literal
RECURSIVE Split(_, _)
Split(s, lit) ==
    LET i == Find(s, lit)
    IN  IF i = 0 THEN <<s>>
        ELSE <<SubSeq(s, 1, i - 1)>> \o Split(SubSeq(s, i + Len(lit), Len(s)), lit)

RECURSIVE FilterMapParse(_)
FilterMapParse(segments) ==
    IF segments = <<>> THEN <<>>
    ELSE parse(Head(segments)) \o FilterMapParse(Tail(segments))

\* pattern.split(&text).skip(1).filter_map(|commit| parser.parse(commit)).collect()
collect_commits(log) == FilterMapParse(Tail(Split(log, pattern)))

\* what git log prints for a commit
HeaderOk == <<"A", "u", "t", "h", "o", "r", ":", " ", "A", "l", " ", "<", "a", "@", "b", ">", "\n", "D", "a", "t", "e", ":", " ", " ", " ", "M", "o", "n", ",", " ", "2", " ", "J", "a", "n", " ", "2", "0", "2", "3", " ", "1", "0", ":", "0", "0", ":", "0", "0", " ", "+", "0", "1", "0", "0", "\n">>
HeaderNoEmail == <<"A", "u", "t", "h", "o", "r", ":", " ", "A", "l", "\n", "D", "a", "t", "e", ":", " ", " ", " ", "M", "o", "n", ",", " ", "2", " ", "J", "a", "n", " ", "2", "0", "2", "3", " ", "1", "0", ":", "0", "0", ":", "0", "0", " ", "+", "0", "1", "0", "0", "\n">>
HeaderNoDate == <<"A", "u", "t", "h", "o", "r", ":", " ", "A", "l", " ", "<", "a", "@", "b", ">", "\n", "D", "a", "t", "e", ":", " ", " ", " ", "y", "e", "s", "t", "e", "r", "d", "a", "y", "\n">>

Headers == {HeaderOk, HeaderNoEmail, HeaderNoDate}

MsgRevert == <<"R", "e", "v", "e", "r", "t", " ", "c", "o", "m", "m", "i", "t", " ", "c", "0">>

LogMessages == {MsgFixed, MsgFixedBug, MsgRevert}

BlockId(k) == <<"c", DigitChar(k)>>

\* the message as git log prints it: every line indented by four spaces
Indented(message) ==
    Concat([k \in 1..Len(Lines(message)) |-> <<" ", " ", " ", " ">> \o Lines(message)[k] \o <<"\n">>])

\* git log: the blocks, "commit <id>" first, with a blank line between them
RECURSIVE Printed(_, _)
Printed(bs, k) ==
    IF k > Len(bs) THEN <<>>
    ELSE <<"c", "o", "m", "m", "i", "t", " ">> \o BlockId(k) \o <<"\n">> \o bs[k].header \o <<"\n">>
            \o Indented(bs[k].message) \o <<"\n">> \o Printed(bs, k + 1)

\* let text = run_command_or(&mut cmd, "git-log failed")?; (lib.rs trims the end)
InitLog ==
    /\ \E n \in 0..MaxBlocks :
          blocks \in [1..n -> [header : Headers, message : LogMessages]]
    /\ raw = TrimEnd(Printed(blocks, 1))
    /\ parsed = <<>>
    /\ commits = <<>>
    /\ tag \in Tags
    /\ classified = NoBuckets
    /\ section = <<>>
    /\ today = [y |-> 0, m |-> 0, d |-> 0]
    /\ gpc = "log"
    /\ shortened = None
    /\ IdleUpdate

\* let commits = collect_commits(repository, old_tag)?;
CollectCommits ==
    /\ gpc = "log"
    /\ parsed' = collect_commits(raw)
    /\ commits' = [k \in 1..Len(collect_commits(raw)) |-> collect_commits(raw)[k].message]
    /\ gpc' = "collected"
    /\ UNCHANGED <<tag, classified, section, today, blocks, raw, shortened>>
    /\ UNCHANGED updvars

NextLog == CollectCommits \/ Classify \/ Format

SpecLog == InitLog /\ [][NextLog]_vars

WellFormed(b) == b.header = HeaderOk

\* the places in blocks of the well-formed blocks
WellFormedBlocks == SelectSeq([k \in 1..Len(blocks) |-> k], LAMBDA k : WellFormed(blocks[k]))

\* C13: collect_commits yields one Commit per well-formed block, in order,
\* with the id and all the message lines of that block, and no Commit for a
\* block whose header does not match: the blocks are as many as the commits
\* plus the malformed blocks.
C13_OneCommitPerBlock ==
    gpc = "collected" =>
        /\ Len(parsed) = Len(WellFormedBlocks)
        /\ Len(blocks) = Len(parsed) + Cardinality({k \in 1..Len(blocks) : ~WellFormed(blocks[k])})
        /\ \A n \in 1..Len(parsed) :
              n <= Len(WellFormedBlocks) =>
                  /\ Lines(parsed[n].message) = Lines(blocks[WellFormedBlocks[n]].message)
                  /\ parsed[n].id = BlockId(WellFormedBlocks[n])

-----------------------------------------------------------------------------
(* The style of the rule families: generate_changelog on briefs that carry *)
(* a keyword at the start, after a tool prefix, or later in the sentence.  *)

MsgMidFix == <<"R", "e", "f", "a", "c", "t", "o", "r", " ", "a", "n", "d", " ", "f", "i", "x", " ", "s", "t", "u", "f", "f">>
MsgToolFix == <<"m", "e", "s", "o", "n", ":", " ", "f", "i", "x", " ", "b", "u", "i", "l", "d">>
MsgToolAdded == <<"m", "e", "s", "o", "n", ":", " ", "a", "d", "d", "e", "d", " ", "a", "n", " ", "o", "p", "t", "i", "o", "n">>

StyleMessages == {MsgMidFix, MsgToolFix, MsgToolAdded, MsgFixed, MsgAdded,
                  MsgBump, MsgRefactor}

InitStyle ==
    /\ \E n \in 0..MaxCommits : commits \in [1..n -> StyleMessages]
    /\ tag \in Tags
    /\ classified = NoBuckets
    /\ section = <<>>
    /\ today = [y |-> 0, m |-> 0, d |-> 0]
    /\ gpc = "collected"
    /\ blocks = <<>>
    /\ raw = <<>>
    /\ parsed = <<>>
    /\ shortened = None
    /\ IdleUpdate

SpecStyle == InitStyle /\ [][NextGen]_vars

AddKeywords == {<<"A", "d", "d">>, <<"a", "d", "d">>, <<"A", "d", "d", "e", "d">>, <<"a", "d", "d", "e", "d">>, <<"N", "e", "w">>, <<"n", "e", "w">>}

FixKeywords == {<<"F", "i", "x">>, <<"f", "i", "x">>, <<"F", "i", "x", "e", "d">>, <<"f", "i", "x", "e", "d">>}

BumpKeywords == {<<"B", "u", "m", "p">>, <<"b", "u", "m", "p">>, <<"B", "u", "m", "p", "e", "d">>, <<"b", "u", "m", "p", "e", "d">>, <<"K", "i", "c", "k", " ", "o", "f", "f">>, <<"k", "i", "c", "k", " ", "o", "f", "f">>}

\* b without its leading "<file-or-tool>: ", a single word and a colon
AfterToolPrefix(b) ==
    LET i == Find(b, <<":", " ">>)
    IN  IF i > 1 /\ Find(SubSeq(b, 1, i - 1), <<" ">>) = 0
        THEN SubSeq(b, i + 2, Len(b)) ELSE b

\* a keyword of kws stands at the start of b or directly after its prefix
PrefixStyle(b, kws) ==
    \E w \in kws : HasPrefix(b, w \o <<" ">>) \/ HasPrefix(AfterToolPrefix(b), w \o <<" ">>)

\* C14: a commit is an addition, a fix or dropped as a bump only if the
\* keyword of that family stands at the start of its brief or directly after
\* a single leading "<file-or-tool>: "; a brief with the keyword later in the
\* sentence, such as "Refactor and fix stuff", is a change.
C14_PrefixStyle ==
    gpc = "classified" =>
        \A i \in 1..Len(commits) :
            brief(commits[i]) # None =>
                /\ BucketsOf(i) = {"additions"} => PrefixStyle(brief(commits[i])[1], AddKeywords)
                /\ BucketsOf(i) = {"fixes"} => PrefixStyle(brief(commits[i])[1], FixKeywords)
                /\ BucketsOf(i) = {} => PrefixStyle(brief(commits[i])[1], BumpKeywords)
                /\ commits[i] = MsgMidFix => BucketsOf(i) = {"changes"}

-----------------------------------------------------------------------------
(* One in-place run of update_changelog and another process that reads the *)
(* changelog path.  A file opened by the reader keeps the bytes it had: no *)
(* step of update_changelog writes into the file the path names, the path  *)
(* is given another file by rename.                                        *)

InitReader ==
    /\ Init
    /\ in_place

\* the other process opens the changelog path and reads the file to its end
ReaderRead ==
    /\ pc # "idle"
    /\ seen' = Some(changelog)
    /\ UNCHANGED <<changelog, tmpfile, stdout, text, in_place, pc, inserted,
                   input, line, result, runs, doc0, orig>>
    /\ UNCHANGED genvars

NextReader ==
    \/ Open \/ OpenFail
    \/ Create \/ CreateFail
    \/ ReadLine \/ ReadFail
    \/ WriteText \/ WriteTextFail
    \/ WriteLine \/ WriteLineFail
    \/ EndOfInput
    \/ Rename \/ RenameFail
    \/ ReaderRead

SpecReader == InitReader /\ [][NextReader]_vars

\* C15: whenever another process reads the changelog path during an in-place
\* run, it reads the whole original document or the whole merged document,
\* and the merged document only once the rename has been done.
C15_ReaderSeesWhole ==
    seen # None =>
        /\ seen[1] \in {doc0, Merged(doc0, text)}
        /\ seen[1] # doc0 => pc = "done"

\* a read of the original document while the temporary file holds the
\* section and no more
C15_Witness ==
    /\ seen = Some(doc0)
    /\ pc = "line"
    /\ inserted
    /\ tmpfile # None
    /\ tmpfile[1] # <<>>
    /\ tmpfile[1] # Merged(doc0, text)
    /\ doc0 # Merged(doc0, text)

====
